---- MODULE Spec2Model ----
(***************************************************************************)
(* A model of src/nslang.js: the tagged values, the stack and environment  *)
(* helpers, the standard library primitives and the interpreter loop       *)
(* `run`.  Javascript values are modelled as records:                      *)
(*   undefined                    [js |-> "undefined"]                     *)
(*   a host function              [js |-> "function", name |-> ...]        *)
(*   a number / a string          [js |-> ..., n |-> Int, s |-> STRING]    *)
(*   a tagged value {t:.., v:..}  [t |-> ..., v |-> payload]               *)
(* A number is an exact integer (s = ""), or one of the IEEE specials      *)
(* NaN, Infinity, -Infinity, -0 named by s.                                *)
(***************************************************************************)
EXTENDS Integers, Sequences, FiniteSets, TLC

VARIABLES env, program, pc, stack, status, pre, applied, last, executed,
          loader, env2

vars == <<env, program, pc, stack, status, pre, applied, last, executed,
          loader, env2>>

(***************************************************************************)
(* Bounds of the model.                                                    *)
(***************************************************************************)
MaxProg == 3
MaxDepth == 2
MaxCoord == 4

(***************************************************************************)
(* Javascript primitive values.                                            *)
(***************************************************************************)
Undefined == [js |-> "undefined"]

HostFunction(name) == [js |-> "function", name |-> name]

JSNumber(k) == [js |-> "number", n |-> k, s |-> ""]

JSString(text) == [js |-> "string", n |-> 0, s |-> text]

NaN == [js |-> "number", n |-> 0, s |-> "NaN"]

Infinity == [js |-> "number", n |-> 0, s |-> "Infinity"]

NegInfinity == [js |-> "number", n |-> 0, s |-> "-Infinity"]

NegZero == [js |-> "number", n |-> 0, s |-> "-0"]

\* A number the model has no exact representation for: a quotient or a
\* square root that is not an integer.
Inexact == [js |-> "number", n |-> 0, s |-> "inexact"]

IsZero(p) == p = JSNumber(0) \/ p = NegZero

IsInf(p) == p = Infinity \/ p = NegInfinity

\* TRUE for the numbers with the sign bit set.
IsNegative(p) == p = NegInfinity \/ p = NegZero \/ (p.s = "" /\ p.n < 0)

SignedZero(neg) == IF neg THEN NegZero ELSE JSNumber(0)

SignedInf(neg) == IF neg THEN NegInfinity ELSE Infinity

Abs(k) == IF k < 0 THEN -k ELSE k

\* ToNumber of the language standard, for the payloads a run can meet.  A
\* string reaches a primitive as the payload of a String literal or of a Word
\* that was pushed, or as a concatenation that contains one.  Those of the
\* model (Strs, AliasTargets, the target of "w") are words of letters that no
\* numeric literal contains, so none of these strings reads as a number.
ToNumber(p) ==
    IF p.js = "number" THEN p
    ELSE NaN

\* ToString of the language standard.
ToStr(p) ==
    IF p.js = "string" THEN p.s
    ELSE IF p.js = "undefined" THEN "undefined"
    ELSE IF p = NegZero THEN "0"
    ELSE IF p.s # "" THEN p.s
    ELSE ToString(p.n)

NumAdd(a, b) ==
    IF a = Inexact \/ b = Inexact THEN Inexact
    ELSE IF a = NaN \/ b = NaN THEN NaN
    ELSE IF IsInf(a) /\ IsInf(b) THEN (IF a = b THEN a ELSE NaN)
    ELSE IF IsInf(a) THEN a
    ELSE IF IsInf(b) THEN b
    ELSE IF a = NegZero /\ b = NegZero THEN NegZero
    ELSE JSNumber(a.n + b.n)

NumNeg(b) ==
    IF b = Inexact \/ b = NaN THEN b
    ELSE IF IsInf(b) THEN SignedInf(~IsNegative(b))
    ELSE IF IsZero(b) THEN SignedZero(~IsNegative(b))
    ELSE JSNumber(-b.n)

NumSub(a, b) == NumAdd(a, NumNeg(b))

NumMul(a, b) ==
    LET neg == IsNegative(a) # IsNegative(b) IN
    IF a = Inexact \/ b = Inexact THEN Inexact
    ELSE IF a = NaN \/ b = NaN THEN NaN
    ELSE IF (IsInf(a) /\ IsZero(b)) \/ (IsZero(a) /\ IsInf(b)) THEN NaN
    ELSE IF IsInf(a) \/ IsInf(b) THEN SignedInf(neg)
    ELSE IF IsZero(a) \/ IsZero(b) THEN SignedZero(neg)
    ELSE JSNumber(a.n * b.n)

NumDiv(a, b) ==
    LET neg == IsNegative(a) # IsNegative(b) IN
    IF a = Inexact \/ b = Inexact THEN Inexact
    ELSE IF a = NaN \/ b = NaN THEN NaN
    ELSE IF (IsInf(a) /\ IsInf(b)) \/ (IsZero(a) /\ IsZero(b)) THEN NaN
    ELSE IF IsInf(a) \/ IsZero(b) THEN SignedInf(neg)
    ELSE IF IsInf(b) \/ IsZero(a) THEN SignedZero(neg)
    ELSE IF Abs(a.n) % Abs(b.n) = 0
         THEN JSNumber((IF neg THEN -1 ELSE 1) * (Abs(a.n) \div Abs(b.n)))
    ELSE Inexact

\* The operators of the host language as the primitives use them.
JSAdd(x, y) ==
    IF x.js = "string" \/ y.js = "string"
    THEN JSString(ToStr(x) \o ToStr(y))
    ELSE NumAdd(ToNumber(x), ToNumber(y))

JSSub(x, y) == NumSub(ToNumber(x), ToNumber(y))

JSMul(x, y) == NumMul(ToNumber(x), ToNumber(y))

JSDiv(x, y) == NumDiv(ToNumber(x), ToNumber(y))

\* Math.sqrt
MathSqrt(x) ==
    LET a == ToNumber(x) IN
    IF a = Inexact THEN Inexact
    ELSE IF a = NaN \/ a = NegInfinity THEN NaN
    ELSE IF a = Infinity \/ IsZero(a) THEN a
    ELSE IF a.n < 0 THEN NaN
    ELSE IF \E r \in 1..a.n : r * r = a.n
         THEN JSNumber(CHOOSE r \in 1..a.n : r * r = a.n)
    ELSE Inexact

\* TRUE when no number of a payload is outside the model's exact numbers.
Representable(p) == p # Inexact

(***************************************************************************)
(* Values                                                                  *)
(***************************************************************************)
number(v) == [t |-> "number", v |-> v]

string(v) == [t |-> "string", v |-> v]

word(v) == [t |-> "word", v |-> v]

prim(fn) == [t |-> "prim", v |-> fn]

\* item.t and item.v for an item that is not undefined: a host function has
\* neither property.
FieldT(item) == IF "t" \in DOMAIN item THEN item.t ELSE "undefined"

FieldV(item) == IF "v" \in DOMAIN item THEN item.v ELSE Undefined

\* Shorthands for the literals of a program.
Number(k) == number(JSNumber(k))

String(text) == string(JSString(text))

Word(sym) == word(JSString(sym))

(***************************************************************************)
(* Environment: the own properties of the object mk_env returns.  A key    *)
(* that is not an own property is read through the prototype chain of a    *)
(* plain object, where the methods of Object.prototype are found.          *)
(***************************************************************************)
ObjectPrototypeKeys ==
    {"__defineGetter__", "__defineSetter__", "__lookupGetter__",
     "__lookupSetter__", "constructor", "hasOwnProperty", "isPrototypeOf",
     "propertyIsEnumerable", "toLocaleString", "toString", "valueOf"}

mk_env == [k \in {} |-> Undefined]

\* The object Object.prototype itself, the prototype of a new environment.
ObjectPrototype == [js |-> "object", name |-> "Object.prototype"]

\* The property read env[key].  The key "__proto__" is the accessor of
\* Object.prototype: an assignment of an object to it replaces the prototype
\* of the environment, kept here under that key, and a read returns the
\* prototype.  An item made by number, string, word or prim has the own
\* properties t and v and Object.prototype as its prototype.
Get(e, key) ==
    IF key \in DOMAIN e THEN e[key]
    ELSE IF "__proto__" \in DOMAIN e /\ key = "t"
    THEN JSString(e["__proto__"].t)
    ELSE IF "__proto__" \in DOMAIN e /\ key = "v"
    THEN e["__proto__"].v
    ELSE IF key = "__proto__" THEN ObjectPrototype
    ELSE IF key \in ObjectPrototypeKeys THEN HostFunction(key)
    ELSE Undefined

\* lookup that goes on resolving while the value found is itself a word.
lookupTwice(e, w) ==
    LET first == Get(e, w.v.s)
    IN  IF first # Undefined /\ FieldT(first) = "word"
        THEN Get(e, first.v.s)
        ELSE first

lookup(e, w) == Get(e, w.v.s)

\* A binding that is kept when the key already has one.
defineIfAbsent(e, key, value) ==
    [k \in (DOMAIN e) \cup {key} |-> IF k \in DOMAIN e THEN e[k] ELSE value]

define(e, key, value) ==
    [k \in (DOMAIN e) \cup {key} |-> IF k = key THEN value ELSE e[k]]

(***************************************************************************)
(* Stack: a Javascript array, bottom first.                                *)
(***************************************************************************)
push(s, item) == Append(s, item)

\* The first element taken instead of the last, as Array.prototype.shift does.
popFront(s) ==
    IF Len(s) = 0
    THEN [ret |-> Undefined, stack |-> s]
    ELSE [ret |-> s[1], stack |-> Tail(s)]

\* Array.prototype.pop: the value returned and the array left behind.
pop(s) ==
    IF Len(s) = 0
    THEN [ret |-> Undefined, stack |-> s]
    ELSE [ret |-> s[Len(s)], stack |-> SubSeq(s, 1, Len(s) - 1)]

\* Reading an array at an index it does not have gives undefined.
ArrayGet(s, idx) == IF idx \in 0..(Len(s) - 1) THEN s[idx + 1] ELSE Undefined

topitem(s) == ArrayGet(s, Len(s) - 1)

\* An index counted from the bottom of the array: stack[i].
topiFromBottom(s, i) == ArrayGet(s, i)

topi(s, i) == ArrayGet(s, Len(s) - 1 - i)

depth(s) == Len(s)

(***************************************************************************)
(* Standard library.  A primitive is a host function named after the word  *)
(* it is defined under; calling it gives the stack it leaves and whether   *)
(* it threw (reading .v of undefined is a TypeError).                      *)
(***************************************************************************)
BinaryOps == {"+", "-", "*", "/"}

BinaryOp(op, x, y) ==
    IF op = "+" THEN JSAdd(x, y)
    ELSE IF op = "-" THEN JSSub(x, y)
    ELSE IF op = "*" THEN JSMul(x, y)
    ELSE JSDiv(x, y)

\* The operands retrieved in the other order: x popped first.
BinaryPrimSwapped(op, s) ==
    LET px == pop(s)
        py == pop(px.stack)
        y == py.ret
        x == px.ret
    IN  IF x = Undefined \/ y = Undefined
        THEN [stack |-> py.stack, threw |-> TRUE]
        ELSE [stack |-> push(py.stack, number(BinaryOp(op, FieldV(x), FieldV(y)))),
              threw |-> FALSE]

\* The result returned in a new array: return [number(x.v op y.v)].
BinaryPrimClears(op, s) ==
    LET py == pop(s)
        px == pop(py.stack)
        y == py.ret
        x == px.ret
    IN  IF x = Undefined \/ y = Undefined
        THEN [stack |-> px.stack, threw |-> TRUE]
        ELSE [stack |-> <<number(BinaryOp(op, FieldV(x), FieldV(y)))>>,
              threw |-> FALSE]

\* The depth checked before anything is popped.
BinaryPrimChecked(op, s) ==
    LET py == pop(s)
        px == pop(py.stack)
        y == py.ret
        x == px.ret
    IN  IF Len(s) < 2 \/ x = Undefined \/ y = Undefined
        THEN [stack |-> s, threw |-> TRUE]
        ELSE [stack |-> push(px.stack, number(BinaryOp(op, FieldV(x), FieldV(y)))),
              threw |-> FALSE]

\* function (stack) { let y = pop(stack), x = pop(stack);
\*                    return push(stack, number(x.v op y.v)); }
BinaryPrim(op, s) ==
    LET py == pop(s)
        px == pop(py.stack)
        y == py.ret
        x == px.ret
    IN  IF x = Undefined \/ y = Undefined
        THEN [stack |-> px.stack, threw |-> TRUE]
        ELSE [stack |-> push(px.stack, number(BinaryOp(op, FieldV(x), FieldV(y)))),
              threw |-> FALSE]

\* The bottom of the stack duplicated instead of its top.
DupBottom(s) == [stack |-> push(s, IF Len(s) = 0 THEN Undefined ELSE s[1]),
                 threw |-> FALSE]

\* function (stack) { return push(stack, topitem(stack)); }
DupPrim(s) == [stack |-> push(s, topitem(s)), threw |-> FALSE]

\* sqrt reading its operand with topitem and leaving it on the stack.
SqrtKeeps(s) ==
    LET x == topitem(s)
    IN  IF x = Undefined
        THEN [stack |-> s, threw |-> TRUE]
        ELSE [stack |-> push(s, number(MathSqrt(FieldV(x)))), threw |-> FALSE]

\* function (stack) { let x = pop(stack);
\*                    return push(stack, number(Math.sqrt(x.v))); }
SqrtPrim(s) ==
    LET px == pop(s)
        x == px.ret
    IN  IF x = Undefined
        THEN [stack |-> px.stack, threw |-> TRUE]
        ELSE [stack |-> push(px.stack, number(MathSqrt(FieldV(x)))),
              threw |-> FALSE]

CallHostFunction(fn, s) ==
    IF fn.name \in BinaryOps THEN BinaryPrim(fn.name, s)
    ELSE IF fn.name = "dup" THEN DupPrim(s)
    ELSE SqrtPrim(s)

apply(p, s) == CallHostFunction(p.v, s)

\* The loader as first declared.
load_stdlib(e) ==
    define(define(define(define(e,
        "+", prim(HostFunction("+"))),
        "-", prim(HostFunction("-"))),
        "*", prim(HostFunction("*"))),
        "/", prim(HostFunction("/")))

\* The builder handed to stddefs.
new_defns(e) ==
    define(define(e,
        "dup", prim(HostFunction("dup"))),
        "sqrt", prim(HostFunction("sqrt")))

\* The loader after stddefs(new_defns) has wrapped it:
\* function (env) { return new_defns(load_first(env)) || env; }
\* where new_defns returns the environment, which is an object and so truthy.
stddefs_load_stdlib(e) == new_defns(load_stdlib(e))

test_env == stddefs_load_stdlib(mk_env)

(***************************************************************************)
(* The global load_stdlib as a value: the function first declared, or a    *)
(* closure made by stddefs that holds a builder new_defns and the loader   *)
(* load_first it wraps.  A builder is given by the definitions it makes,   *)
(* in order, and by whether it returns the environment or nothing.         *)
(***************************************************************************)
BaseLoader == [base |-> "load_stdlib"]

\* The builder of the script: defines dup and sqrt, returns env.
ScriptBuilder ==
    [name |-> "dup_sqrt",
     defs |-> <<[key |-> "dup", value |-> prim(HostFunction("dup"))],
                [key |-> "sqrt", value |-> prim(HostFunction("sqrt"))]>>,
     returns |-> TRUE]

\* stddefs(new_defns): the closure that replaces load_stdlib.
stddefs(load_first, builder) ==
    [new_defns |-> builder, load_first |-> load_first]

\* load_stdlib once the script has been evaluated.
ScriptLoader == stddefs(BaseLoader, ScriptBuilder)

RECURSIVE DefineAll(_, _)
DefineAll(e, defs) ==
    IF defs = <<>> THEN e
    ELSE DefineAll(define(e, defs[1].key, defs[1].value), Tail(defs))

\* A call of a builder on the environment object: the bindings the object
\* has afterwards and what the call returns, the object or undefined.
CallBuilder(b, e) ==
    [env |-> DefineAll(e, b.defs),
     ret |-> IF b.returns THEN "env" ELSE "undefined"]

\* The closure applying the builder before the loader it wraps:
\* load_first(new_defns(env) || env).
RECURSIVE CallLoaderReversed(_, _)
CallLoaderReversed(l, e) ==
    IF l = BaseLoader
    THEN [env |-> load_stdlib(e), ret |-> "env", calls |-> <<"load_stdlib">>]
    ELSE LET r == CallBuilder(l.new_defns, e)
             inner == CallLoaderReversed(l.load_first, r.env)
         IN  [env |-> inner.env,
              ret |-> inner.ret,
              calls |-> <<l.new_defns.name>> \o inner.calls]

\* A call load_stdlib(env): the bindings of the object afterwards, what the
\* call returns, and the functions that ran, in order.  A closure is
\* function (env) { return new_defns(load_first(env)) || env; }
\* and load_first, the first loader or a closure, returns the object.
RECURSIVE CallLoader(_, _)
CallLoader(l, e) ==
    IF l = BaseLoader
    THEN [env |-> load_stdlib(e), ret |-> "env", calls |-> <<"load_stdlib">>]
    ELSE LET inner == CallLoader(l.load_first, e)
             r == CallBuilder(l.new_defns, inner.env)
         IN  [env |-> r.env,
              ret |-> IF r.ret = "undefined" THEN "env" ELSE r.ret,
              calls |-> Append(inner.calls, l.new_defns.name)]

\* The builders a loader holds, the first registered first.
RECURSIVE Registered(_)
Registered(l) ==
    IF l = BaseLoader THEN <<>>
    ELSE Append(Registered(l.load_first), l.new_defns)

(***************************************************************************)
(* The interpreter loop.                                                   *)
(*   status  "running" inside the for loop, "done" once run has returned   *)
(*           the stack, "TypeError" once that exception has left run       *)
(*   pre     the stack as it was when the current iteration began          *)
(*   applied the names of the primitives apply has called, in order        *)
(*   executed the values pc had at the iterations begun, in order          *)
(*   loader  the function the global load_stdlib holds                     *)
(*   env2    a second environment, made by another call of mk_env          *)
(***************************************************************************)
Nums == {-1, 0, 1, 2}

Strs == {"a"}

Syms == {"+", "-", "*", "/", "dup", "sqrt", "alias", "n", "w", "missing",
         "toString"}

Instrs == {Number(k) : k \in Nums} \cup {String(t) : t \in Strs}
          \cup {Word(y) : y \in Syms}

RECURSIVE SeqsUpTo(_, _)
SeqsUpTo(S, k) ==
    IF k = 0 THEN {<<>>}
    ELSE LET shorter == SeqsUpTo(S, k - 1)
         IN  shorter \cup {Append(q, x) : q \in {r \in shorter : Len(r) = k - 1}, x \in S}

Programs == SeqsUpTo(Instrs, MaxProg)

\* What the word "alias" is bound to: a word bound to a primitive, to a
\* number, to a word, to nothing, and to itself.
AliasTargets == {"dup", "n", "w", "missing", "alias"}

EnvWith(target) ==
    define(define(define(test_env,
        "n", Number(1)),
        "w", Word("dup")),
        "alias", Word(target))

Envs == {EnvWith(b) : b \in AliasTargets}

NoCall == [op |-> "none"]

Init ==
    /\ env \in Envs
    /\ program \in Programs
    /\ pc = 0
    /\ stack = <<>>
    /\ status = "running"
    /\ pre = <<>>
    /\ applied = <<>>
    /\ executed = <<>>
    /\ loader = ScriptLoader
    /\ env2 = mk_env
    /\ last = NoCall

\* The instruction of iteration k after the lookup of a word.
Resolved(e, prog, k) ==
    LET instr == prog[k + 1]
    IN  IF instr.t = "word" THEN lookup(e, instr) ELSE instr

\* The loop body dispatching on the tag the instruction had before the
\* lookup: switch (program[pc].t).
IterateOriginalTag(e, prog, k, s) ==
    LET instr == Resolved(e, prog, k)
    IN  IF instr = Undefined
        THEN [stack |-> s, threw |-> TRUE, called |-> <<>>]
        ELSE IF prog[k + 1].t = "prim"
        THEN LET r == apply(instr, s)
             IN  [stack |-> r.stack, threw |-> r.threw, called |-> <<instr.v.name>>]
        ELSE [stack |-> push(s, instr), threw |-> FALSE, called |-> <<>>]

\* The body of the for loop at pc = k on stack s: the stack it leaves, the
\* primitive it called if any, and whether a TypeError left it.
Iterate(e, prog, k, s) ==
    LET instr == Resolved(e, prog, k)
    IN  IF instr = Undefined
        THEN \* switch (instr.t) reads a property of undefined
             [stack |-> s, threw |-> TRUE, called |-> <<>>]
        ELSE IF FieldT(instr) = "prim"
        THEN LET r == apply(instr, s)
             IN  [stack |-> r.stack, threw |-> r.threw, called |-> <<instr.v.name>>]
        ELSE [stack |-> push(s, instr), threw |-> FALSE, called |-> <<>>]

\* run with the loop started at 0 whatever pc it is given: for (pc = 0; ...).
RECURSIVE runLoop(_, _, _, _)
runLoop(e, prog, k, s) ==
    IF k >= Len(prog)
    THEN [status |-> "done", stack |-> s, pc |-> k]
    ELSE LET r == Iterate(e, prog, k, s)
         IN  IF r.threw
             THEN [status |-> "TypeError", stack |-> r.stack, pc |-> k]
             ELSE runLoop(e, prog, k + 1, r.stack)

runFromStart(e, prog, k, s) == runLoop(e, prog, 0, s)

\* run as a function of its arguments: how it ends, the stack it leaves and
\* the value of pc when it ends.
RECURSIVE run(_, _, _, _)
run(e, prog, k, s) ==
    IF k >= Len(prog)
    THEN [status |-> "done", stack |-> s, pc |-> k]
    ELSE LET r == Iterate(e, prog, k, s)
         IN  IF r.threw
             THEN [status |-> "TypeError", stack |-> r.stack, pc |-> k]
             ELSE run(e, prog, k + 1, r.stack)

\* TRUE when every number on the stack is one the model represents exactly.
AllRepresentable(s) == \A i \in 1..Len(s) : Representable(FieldV(s[i]))

\* An iteration that also binds the value it pushed to the word "it".
StepBindsPushed ==
    /\ status = "running"
    /\ pc < Len(program)
    /\ LET r == Iterate(env, program, pc, stack)
       IN  /\ AllRepresentable(r.stack)
           /\ pre' = stack
           /\ stack' = r.stack
           /\ applied' = applied \o r.called
           /\ status' = IF r.threw THEN "TypeError" ELSE "running"
           /\ pc' = IF r.threw THEN pc ELSE pc + 1
           /\ env' = IF ~r.threw /\ r.called = <<>>
                     THEN define(env, "it", r.stack[Len(r.stack)])
                     ELSE env
    /\ executed' = Append(executed, pc)
    /\ UNCHANGED <<program, last, loader, env2>>

\* An iteration that advances pc by two.
StepSkipsOne ==
    /\ status = "running"
    /\ pc < Len(program)
    /\ LET r == Iterate(env, program, pc, stack)
       IN  /\ AllRepresentable(r.stack)
           /\ pre' = stack
           /\ stack' = r.stack
           /\ applied' = applied \o r.called
           /\ status' = IF r.threw THEN "TypeError" ELSE "running"
           /\ pc' = IF r.threw THEN pc ELSE pc + 2
    /\ executed' = Append(executed, pc)
    /\ UNCHANGED <<env, program, last, loader, env2>>

\* One iteration of the for loop.
Step ==
    /\ status = "running"
    /\ pc < Len(program)
    /\ LET r == Iterate(env, program, pc, stack)
       IN  /\ AllRepresentable(r.stack)
           /\ pre' = stack
           /\ stack' = r.stack
           /\ applied' = applied \o r.called
           /\ status' = IF r.threw THEN "TypeError" ELSE "running"
           /\ pc' = IF r.threw THEN pc ELSE pc + 1
    /\ executed' = Append(executed, pc)
    /\ UNCHANGED <<env, program, last, loader, env2>>

\* pc has reached program.length: return stack.
Return ==
    /\ status = "running"
    /\ pc >= Len(program)
    /\ status' = "done"
    /\ UNCHANGED <<env, program, pc, stack, pre, applied, last, executed,
                   loader, env2>>

Next == Step \/ Return

Spec == Init /\ [][Next]_vars

(***************************************************************************)
(* Properties of the interpreter loop.                                     *)
(***************************************************************************)

\* C1: a run of [Number(a), Number(b), Word(op)], op one of + - *, from pc 0
\* on an empty stack with the standard library loaded ends with a stack of
\* exactly one element, the Number a op b, a being the left operand.
C1_Arithmetic ==
    \A a \in Nums, b \in Nums, op \in {"+", "-", "*"} :
        (/\ status = "done"
         /\ program = <<Number(a), Number(b), Word(op)>>
         /\ env[op] = prim(HostFunction(op)))
        => /\ Len(stack) = 1
           /\ stack[1].t = "number"
           /\ stack[1].v.js = "number"
           /\ stack[1].v.s \in {"", "-0"}
           /\ stack[1].v.n = (IF op = "+" THEN a + b
                              ELSE IF op = "-" THEN a - b
                              ELSE a * b)

C1_Witness ==
    /\ status = "done"
    /\ program = <<Number(1), Number(2), Word("+")>>
    /\ env["+"] = prim(HostFunction("+"))
    /\ stack = <<Number(3)>>

\* C3: a step whose instruction is a word bound to a word pushes that bound
\* word as it is, advances, and calls no primitive, whatever the bound word is
\* itself bound to.
C3_SingleLevel ==
    [][(/\ status = "running"
        /\ pc < Len(program)
        /\ program[pc + 1].t = "word"
        /\ program[pc + 1].v.s \in DOMAIN env
        /\ env[program[pc + 1].v.s].t = "word")
       => (/\ stack' = Append(stack, env[program[pc + 1].v.s])
           /\ applied' = applied
           /\ status' = "running"
           /\ pc' = pc + 1)]_vars

C3_Witness ==
    /\ status = "running"
    /\ pc = 2
    /\ program[pc] = Word("alias")
    /\ env["alias"] = Word("dup")
    /\ env["dup"] = prim(HostFunction("dup"))
    /\ stack = Append(pre, Word("dup"))
    /\ Len(pre) = 1
    /\ applied = <<>>

\* C8: a step whose instruction is a word with no binding in the environment
\* halts the loop at that pc with UnboundWord and leaves the stack as it was.
C8_UnboundWordHalts ==
    [][(/\ status = "running"
        /\ pc < Len(program)
        /\ program[pc + 1].t = "word"
        /\ program[pc + 1].v.s \notin DOMAIN env)
       => (/\ status' = "UnboundWord"
           /\ stack' = stack
           /\ pc' = pc)]_vars

\* C9: a step that reaches a primitive with fewer values on the stack than it
\* reads (two for + - * /, one for sqrt and dup) halts the run at that pc with
\* a failure; any failure status is accepted here.
C9_UnderflowHalts ==
    [][(/\ status = "running"
        /\ pc < Len(program)
        /\ FieldT(Resolved(env, program, pc)) = "prim"
        /\ Len(stack) < (IF Resolved(env, program, pc).v.name \in BinaryOps
                         THEN 2 ELSE 1))
       => (/\ status' \notin {"running", "done"}
           /\ pc' = pc)]_vars

\* C10 as stated: when a run has failed at step pc, the stack is the one a
\* run of the prefix program[0..pc-1] returns.
C10_PrefixStack ==
    status = "TypeError"
    => LET prefix == run(env, SubSeq(program, 1, pc), 0, <<>>)
       IN  /\ prefix.status = "done"
           /\ pc < Len(program)
           /\ stack = prefix.stack

\* C10 amended: when a run has failed at step pc, the stack is the one a run
\* of the prefix program[0..pc-1] returns less the elements the failing
\* primitive popped before it failed: up to two for + - * /, up to one for
\* sqrt, none when the failure is the lookup of the word.
C10_PrefixStackLessPops ==
    status = "TypeError"
    => LET prefix == run(env, SubSeq(program, 1, pc), 0, <<>>)
           instr == Resolved(env, program, pc)
           pops == IF instr = Undefined THEN 0
                   ELSE IF instr.v.name \in BinaryOps THEN 2
                   ELSE 1
           kept == IF Len(prefix.stack) < pops THEN 0
                   ELSE Len(prefix.stack) - pops
       IN  /\ prefix.status = "done"
           /\ pc < Len(program)
           /\ stack = SubSeq(prefix.stack, 1, kept)

C10_Witness ==
    /\ status = "TypeError"
    /\ pc = 1
    /\ program = <<Number(1), Word("+")>>
    /\ pre = <<Number(1)>>
    /\ stack = <<>>

(***************************************************************************)
(* The distance test: tests.distance(x1, y1, x2, y2) run on test_env().    *)
(***************************************************************************)
distance(x1, y1, x2, y2) ==
    <<Number(x1), Number(x2), Word("-"), Word("dup"), Word("*"),
      Number(y1), Number(y2), Word("-"), Word("dup"), Word("*"),
      Word("+"), Word("sqrt")>>

Coords == (-MaxCoord)..MaxCoord

InitDistance ==
    /\ env = test_env
    /\ \E x1 \in Coords, y1 \in Coords, x2 \in Coords, y2 \in Coords :
          program = distance(x1, y1, x2, y2)
    /\ pc = 0
    /\ stack = <<>>
    /\ status = "running"
    /\ pre = <<>>
    /\ applied = <<>>
    /\ executed = <<>>
    /\ loader = ScriptLoader
    /\ env2 = mk_env
    /\ last = NoCall

SpecDistance == InitDistance /\ [][Next]_vars

\* C2: when (x1-x2)^2 + (y1-y2)^2 is a perfect square, the distance program
\* ends with a stack of exactly one element, the Number that is its square
\* root.
C2_Distance ==
    status = "done"
    => LET dx == program[1].v.n - program[2].v.n
           dy == program[6].v.n - program[7].v.n
           sum == dx * dx + dy * dy
       IN  \A r \in 0..sum : r * r = sum => stack = <<Number(r)>>

C2_Witness ==
    /\ status = "done"
    /\ program = distance(0, 0, 3, 4)
    /\ stack = <<Number(5)>>

(***************************************************************************)
(* The stack helpers called one after another on one array.                *)
(*   last  the latest call: its name, argument, return value, the array    *)
(*         before the call and the name of the call before it              *)
(***************************************************************************)
StackVals == {Number(0), Number(1), String("a"), Word("x")}

InitStack ==
    /\ stack \in SeqsUpTo(StackVals \cup {Undefined}, MaxDepth)
    /\ last = NoCall
    /\ env = mk_env
    /\ program = <<>>
    /\ pc = 0
    /\ status = "done"
    /\ pre = <<>>
    /\ applied = <<>>
    /\ executed = <<>>
    /\ loader = ScriptLoader
    /\ env2 = mk_env

Push(item) ==
    /\ Len(stack) <= MaxDepth
    /\ stack' = push(stack, item)
    /\ last' = [op |-> "push", arg |-> item, ret |-> stack', before |-> stack,
                prev |-> last.op]
    /\ UNCHANGED <<env, program, pc, status, pre, applied, executed, loader, env2>>

Pop ==
    /\ stack' = pop(stack).stack
    /\ last' = [op |-> "pop", arg |-> Undefined, ret |-> pop(stack).ret,
                before |-> stack, prev |-> last.op]
    /\ UNCHANGED <<env, program, pc, status, pre, applied, executed, loader, env2>>

TopItem ==
    /\ last' = [op |-> "topitem", arg |-> Undefined, ret |-> topitem(stack),
                before |-> stack, prev |-> last.op]
    /\ UNCHANGED <<stack, env, program, pc, status, pre, applied, executed, loader, env2>>

TopI(i) ==
    /\ last' = [op |-> "topi", arg |-> JSNumber(i), ret |-> topi(stack, i),
                before |-> stack, prev |-> last.op]
    /\ UNCHANGED <<stack, env, program, pc, status, pre, applied, executed, loader, env2>>

Depth ==
    /\ last' = [op |-> "depth", arg |-> Undefined, ret |-> JSNumber(depth(stack)),
                before |-> stack, prev |-> last.op]
    /\ UNCHANGED <<stack, env, program, pc, status, pre, applied, executed, loader, env2>>

NextStack ==
    \/ \E item \in StackVals : Push(item)
    \/ Pop
    \/ TopItem
    \/ \E i \in 0..(MaxDepth + 2) : TopI(i)
    \/ Depth

SpecStack == InitStack /\ [][NextStack]_vars

\* C4: push(s, v) followed immediately by pop(s) returns v and leaves s with
\* the depth and the contents, in order, it had before the push.
C4_PushPop ==
    [][(last.op = "push" /\ last'.op = "pop")
       => (/\ last'.ret = last.arg
           /\ stack' = last.before
           /\ Len(stack') = Len(last.before))]_vars

C4_Witness ==
    /\ last.op = "pop"
    /\ last.prev = "push"
    /\ last.ret = Number(1)
    /\ stack = <<String("a"), Number(0)>>

\* C7: pop and top on an empty stack, and peek at an index that is not below
\* the depth, fail with StackUnderflow and leave the stack unchanged.
C7_CheckedUnderflow ==
    /\ (last.op \in {"pop", "topitem"} /\ last.before = <<>>)
       => (last.ret = [error |-> "StackUnderflow"] /\ stack = last.before)
    /\ (last.op = "topi" /\ last.arg.n >= Len(last.before))
       => (last.ret = [error |-> "StackUnderflow"] /\ stack = last.before)

(***************************************************************************)
(* The environment helpers called one after another on one environment.    *)
(*   last  the latest call: its name, key, value argument, return value,   *)
(*         the environment before the call, the name of the call before it *)
(***************************************************************************)
DefineKeys == {"x", "+", "toString"}

LookupKeys == DefineKeys \cup {"undefined_name"}

DefineVals == {Number(42), Number(1), Word("x")}

InitEnv ==
    /\ env \in {mk_env, test_env}
    /\ last = NoCall
    /\ stack = <<>>
    /\ program = <<>>
    /\ pc = 0
    /\ status = "done"
    /\ pre = <<>>
    /\ applied = <<>>
    /\ executed = <<>>
    /\ loader = ScriptLoader
    /\ env2 = mk_env

Define(key, value) ==
    /\ env' = define(env, key, value)
    /\ last' = [op |-> "define", key |-> key, arg |-> value, ret |-> env',
                before |-> env, prev |-> last.op]
    /\ UNCHANGED <<stack, program, pc, status, pre, applied, executed, loader, env2>>

Lookup(key) ==
    /\ last' = [op |-> "lookup", key |-> key, arg |-> Word(key),
                ret |-> lookup(env, Word(key)), before |-> env,
                prev |-> last.op]
    /\ UNCHANGED <<env, stack, program, pc, status, pre, applied, executed, loader, env2>>

NextEnv ==
    \/ \E key \in DefineKeys, value \in DefineVals : Define(key, value)
    \/ \E key \in LookupKeys : Lookup(key)

SpecEnv == InitEnv /\ [][NextEnv]_vars

\* C5: lookup(define(env, k, v), Word(k)) returns v, also when k already had
\* a binding, and define returns the environment with the binding made.
C5_DefineLookup ==
    [][/\ (last.op = "define" /\ last'.op = "lookup" /\ last'.key = last.key)
          => last'.ret = last.arg
       /\ (last'.op = "define")
          => (last'.ret = env' /\ env'[last'.key] = last'.arg)]_vars

C5_Witness ==
    /\ last.op = "lookup"
    /\ last.prev = "define"
    /\ last.key = "+"
    /\ "sqrt" \in DOMAIN env
    /\ last.ret = Number(42)

\* C6: lookup of a word whose symbol has no binding in the environment fails
\* with UnboundWord(symbol); it returns neither a value nor undefined.
C6_UnboundLookupFails ==
    (last.op = "lookup" /\ last.key \notin DOMAIN last.before)
    => last.ret = [error |-> "UnboundWord", symbol |-> last.key]

(***************************************************************************)
(* Runs of programs that hold primitives directly, next to literals and    *)
(* words.                                                                  *)
(***************************************************************************)
EmbeddedInstrs ==
    {Number(1), String("a"), Word("+"), Word("alias"), Word("n"),
     prim(HostFunction("+")), prim(HostFunction("dup")),
     prim(HostFunction("sqrt"))}

InitEmbedded ==
    /\ env = EnvWith("dup")
    /\ program \in SeqsUpTo(EmbeddedInstrs, MaxProg)
    /\ pc = 0
    /\ stack = <<>>
    /\ status = "running"
    /\ pre = <<>>
    /\ applied = <<>>
    /\ last = NoCall
    /\ executed = <<>>
    /\ loader = ScriptLoader
    /\ env2 = mk_env

SpecEmbedded == InitEmbedded /\ [][Next]_vars

\* C11: a step is decided by the tag of the instruction after one lookup: a
\* primitive, reached through a word or held in the program, is called on the
\* stack, the stack becomes the one it leaves and the primitive is not on it;
\* a Number, String or Word is pushed unchanged, the depth growing by one and
\* the elements below keeping value and position.
C11_TagDispatch ==
    [][(/\ status = "running"
        /\ pc < Len(program)
        /\ Resolved(env, program, pc) # Undefined)
       => LET instr == Resolved(env, program, pc)
          IN  /\ FieldT(instr) = "prim"
                 => /\ applied' = Append(applied, instr.v.name)
                    /\ stack' = CallHostFunction(instr.v, stack).stack
                    /\ \A i \in 1..Len(stack') : stack'[i] # instr
              /\ FieldT(instr) \in {"number", "string", "word"}
                 => /\ Len(stack') = Len(stack) + 1
                    /\ stack'[Len(stack')] = instr
                    /\ SubSeq(stack', 1, Len(stack)) = stack
                    /\ applied' = applied
                    /\ status' = "running"
                    /\ pc' = pc + 1]_vars

C11_Witness ==
    /\ status = "running"
    /\ pc = 3
    /\ program = <<Number(1), prim(HostFunction("dup")), Word("+")>>
    /\ applied = <<"dup", "+">>
    /\ stack = <<Number(2)>>

(***************************************************************************)
(* Runs entered at an offset: run(env, program, k, stack) where stack is   *)
(* what run(env, program[0..k-1], 0, origin) returned.  last holds the     *)
(* arguments of the call and the stack the first run started from.         *)
(***************************************************************************)
ResumeInstrs ==
    {Number(2), String("a"), Word("+"), Word("*"), Word("/"), Word("dup"),
     Word("sqrt"), Word("alias"), Word("missing")}

StartStacks ==
    {<<>>, <<Number(4)>>, <<Number(1), String("a"), Number(4)>>}

\* TRUE when the run from pc = k on stack s meets only numbers the model
\* represents exactly.
RECURSIVE ExactRun(_, _, _, _)
ExactRun(e, prog, k, s) ==
    IF k >= Len(prog) THEN TRUE
    ELSE LET r == Iterate(e, prog, k, s)
         IN  /\ AllRepresentable(r.stack)
             /\ r.threw \/ ExactRun(e, prog, k + 1, r.stack)

InitResume ==
    /\ env = EnvWith("dup")
    /\ program \in SeqsUpTo(ResumeInstrs, MaxProg)
    /\ pc \in 0..Len(program)
    /\ \E s \in StartStacks :
          LET first == run(env, SubSeq(program, 1, pc), 0, s)
          IN  /\ ExactRun(env, program, 0, s)
              /\ first.status = "done"
              /\ stack = first.stack
              /\ last = [op |-> "run", pc |-> pc, stack |-> first.stack,
                         origin |-> s]
    /\ status = "running"
    /\ pre = stack
    /\ applied = <<>>
    /\ executed = <<>>
    /\ loader = ScriptLoader
    /\ env2 = mk_env

SpecResume == InitResume /\ [][Next]_vars

\* The loop is synchronous: an iteration that can be taken is taken.
FairResume == SpecResume /\ WF_vars(Next)

\* C12: a run entered at an offset pc0 <= length terminates; while no step
\* fails pc grows by one per iteration, and the run that returns has pc equal
\* to the length and has executed the indices pc0 .. length-1 once each, in
\* order.
C12_Termination ==
    /\ <>(status # "running")
    /\ [][(status = "running" /\ status' = "running")
          => (/\ pc < Len(program)
              /\ pc' = pc + 1
              /\ executed' = Append(executed, pc))]_vars
    /\ [](status = "done"
          => /\ pc = Len(program)
             /\ executed = [i \in 1..(Len(program) - last.pc) |-> last.pc + i - 1])

C12_Witness ==
    /\ status = "done"
    /\ last.pc = 1
    /\ Len(program) = 3
    /\ executed = <<1, 2>>
    /\ Len(stack) = 2

\* C13: in a run of a program of Numbers, Strings and standard-library Words
\* every element of the stack is a well-formed Value: it has one of the four
\* tags and a payload of the tag's type (a number for "number", a string for
\* "string" and "word", a function for "prim").
C13_WellFormedStack ==
    (\A j \in 1..Len(program) :
        program[j].t = "word"
        => program[j].v.s \in BinaryOps \cup {"dup", "sqrt"})
    => \A i \in 1..Len(stack) :
          /\ "t" \in DOMAIN stack[i]
          /\ \/ stack[i].t = "number" /\ stack[i].v.js = "number"
             \/ stack[i].t \in {"string", "word"} /\ stack[i].v.js = "string"
             \/ stack[i].t = "prim" /\ stack[i].v.js = "function"

(***************************************************************************)
(* A program run twice with the same environment, each time from pc 0 on   *)
(* a new empty stack.  last holds what the first run ended with and the    *)
(* environment and program it left.                                        *)
(***************************************************************************)
TwiceInstrs ==
    {Number(1), Number(2), String("a"), Word("+"), Word("/"), Word("dup"),
     Word("sqrt"), Word("missing")}

InitTwice ==
    /\ env = test_env
    /\ program \in SeqsUpTo(TwiceInstrs, MaxProg)
    /\ pc = 0
    /\ stack = <<>>
    /\ status = "running"
    /\ pre = <<>>
    /\ applied = <<>>
    /\ last = NoCall
    /\ executed = <<>>
    /\ loader = ScriptLoader
    /\ env2 = mk_env

\* run(env, program, 0, []) called again once the first call has ended.
RunAgain ==
    /\ status \in {"done", "TypeError"}
    /\ last = NoCall
    /\ last' = [op |-> "run", status |-> status, stack |-> stack,
                env |-> env, program |-> program]
    /\ pc' = 0
    /\ stack' = <<>>
    /\ status' = "running"
    /\ pre' = <<>>
    /\ applied' = <<>>
    /\ executed' = <<>>
    /\ UNCHANGED <<env, program, loader, env2>>

NextTwice == Step \/ Return \/ RunAgain

SpecTwice == InitTwice /\ [][NextTwice]_vars

\* C14: no step of a run, successful or failing, changes a binding of the
\* environment or an element of the program, and the second of two runs of
\* the same program with the same environment ends as the first did, with an
\* equal stack.
C14_RunReadsEnvAndProgram ==
    [][/\ env' = env
       /\ program' = program
       /\ (last'.op = "run" /\ status' # "running")
          => (status' = last'.status /\ stack' = last'.stack)]_vars

C14_Witness ==
    /\ last.op = "run"
    /\ status = "done"
    /\ program = <<Number(1), Number(2), Word("+")>>
    /\ applied = <<"+">>
    /\ stack = <<Number(3)>>
    /\ stack = last.stack
    /\ env = test_env

\* C15: resumption is compositional.  With k the offset, s the stack the
\* first run started from and first the run of the prefix program[0..k-1] on
\* s: the run of the program from 0 on s ends as the run from k on the stack
\* first returned; the run from k on s ends as the run of the suffix
\* program[k..] from 0 on s; and the loop entered at k ends as run says.
C15_Resumption ==
    LET k == last.pc
        s == last.origin
        first == run(env, SubSeq(program, 1, k), 0, s)
        whole == run(env, program, 0, s)
        resumed == run(env, program, k, first.stack)
        fromk == run(env, program, k, s)
        suffix == run(env, SubSeq(program, k + 1, Len(program)), 0, s)
    IN  /\ first.status = "done"
        /\ whole.status = resumed.status
        /\ whole.stack = resumed.stack
        /\ ExactRun(env, program, k, s)
           => (fromk.status = suffix.status /\ fromk.stack = suffix.stack)
        /\ status # "running"
           => (status = resumed.status /\ stack = resumed.stack)

C15_Witness ==
    /\ status = "done"
    /\ last.pc = 2
    /\ last.origin = <<Number(4)>>
    /\ program = <<Word("dup"), Word("*"), Word("sqrt")>>
    /\ last.stack = <<Number(16)>>
    /\ stack = <<Number(4)>>

\* C19: a step that does not fail changes the depth by +1 for a literal (a
\* Number, a String, a Word that resolves to a value that is not a primitive)
\* and for dup, by -1 for + - * /, by 0 for sqrt; a run that returns has the
\* initial depth plus the number of literal and dup steps minus the number of
\* binary-operator steps.
C19_DepthAccounting ==
    /\ [][(status = "running" /\ status' = "running")
          => LET instr == Resolved(env, program, pc)
             IN  Len(stack') - Len(stack) =
                    (IF FieldT(instr) # "prim" THEN 1
                     ELSE IF instr.v.name \in BinaryOps THEN -1
                     ELSE IF instr.v.name = "sqrt" THEN 0
                     ELSE 1)]_vars
    /\ [](status = "done"
          => LET steps == (last.pc + 1)..Len(program)
                 binary == {i \in steps :
                              /\ FieldT(Resolved(env, program, i - 1)) = "prim"
                              /\ Resolved(env, program, i - 1).v.name \in BinaryOps}
                 level == {i \in steps :
                              /\ FieldT(Resolved(env, program, i - 1)) = "prim"
                              /\ Resolved(env, program, i - 1).v.name = "sqrt"}
             IN  Len(stack) = Len(last.stack)
                              + Cardinality(steps \ (binary \cup level))
                              - Cardinality(binary))

C19_Witness ==
    /\ status = "done"
    /\ last.pc = 0
    /\ last.stack = <<Number(4)>>
    /\ program = <<Word("sqrt"), Word("dup"), Word("*")>>
    /\ stack = <<Number(4)>>

\* C20: the standard-library primitives touch the top of the stack only: a
\* binary operator applied at depth n >= 2 leaves the bottom n-2 elements as
\* they were, sqrt at depth n >= 1 the bottom n-1, and dup at depth n >= 1
\* all n, with the new top equal to the old top.
C20_PrimitiveFrame ==
    [][(/\ status = "running"
        /\ pc < Len(program)
        /\ FieldT(Resolved(env, program, pc)) = "prim")
       => LET name == Resolved(env, program, pc).v.name
              n == Len(stack)
          IN  /\ (name \in BinaryOps /\ n >= 2)
                 => SubSeq(stack', 1, n - 2) = SubSeq(stack, 1, n - 2)
              /\ (name = "sqrt" /\ n >= 1)
                 => SubSeq(stack', 1, n - 1) = SubSeq(stack, 1, n - 1)
              /\ (name = "dup" /\ n >= 1)
                 => /\ SubSeq(stack', 1, n) = stack
                    /\ Len(stack') = n + 1
                    /\ stack'[n + 1] = stack[n]]_vars

C20_Witness ==
    /\ status = "running"
    /\ applied = <<"+">>
    /\ pre = <<Number(1), String("a"), Number(4), Number(2)>>
    /\ stack = <<Number(1), String("a"), Number(6)>>

\* C17: topi(s, i) with 0 <= i < depth(s) returns the element i positions
\* below the top, the one at index depth(s)-1-i from the bottom; topi(s, 0)
\* is topitem(s); depth(s) is the number of elements; topitem, topi and depth
\* leave the stack as it was.
C17_PeekTopDepth ==
    /\ last.op \in {"topitem", "topi", "depth"} => stack = last.before
    /\ (last.op = "topi" /\ last.arg.n < Len(last.before))
       => last.ret = last.before[Len(last.before) - last.arg.n]
    /\ Len(stack) > 0 => (/\ topi(stack, 0) = topitem(stack)
                          /\ topitem(stack) = stack[Len(stack)])
    /\ last.op = "depth" => last.ret = JSNumber(Len(last.before))
    /\ depth(stack) = Len(stack)

C17_Witness ==
    /\ last.op = "topi"
    /\ last.arg = JSNumber(1)
    /\ last.before = <<String("a"), Number(0)>>
    /\ last.ret = String("a")
    /\ stack = <<String("a"), Number(0)>>

(***************************************************************************)
(* stddefs called with one builder after another, and the loader that the  *)
(* global load_stdlib then holds called on an environment.                 *)
(*   loader  the function load_stdlib holds                                *)
(*   env     the environment the loader was last called on                 *)
(*   last    the latest call of the loader: the loader called, the         *)
(*           bindings of the argument before the call, what the call       *)
(*           returned and the functions that ran, in order                 *)
(***************************************************************************)
MaxBuilders == 2

\* Builders handed to stddefs after the one of the script: one that binds
\* dup again, one that returns nothing, one that binds + again.
ExtraBuilders ==
    {[name |-> "dup_one",
      defs |-> <<[key |-> "dup", value |-> Number(1)]>>,
      returns |-> TRUE],
     [name |-> "silent",
      defs |-> <<[key |-> "x", value |-> Number(2)],
                 [key |-> "sqrt", value |-> Number(0)]>>,
      returns |-> FALSE],
     [name |-> "plus",
      defs |-> <<[key |-> "+", value |-> String("a")]>>,
      returns |-> TRUE]}

\* Environments a loader is called on: a new one, and one with bindings.
LoadArgs == {mk_env, define(define(mk_env, "dup", Number(2)), "y", Number(0))}

InitLoader ==
    /\ loader = ScriptLoader
    /\ env = mk_env
    /\ last = NoCall
    /\ env2 = mk_env
    /\ stack = <<>>
    /\ program = <<>>
    /\ pc = 0
    /\ status = "done"
    /\ pre = <<>>
    /\ applied = <<>>
    /\ executed = <<>>

\* stddefs(new_defns): load_stdlib = closure over new_defns and load_stdlib.
Stddefs(builder) ==
    /\ Len(Registered(loader)) <= MaxBuilders
    /\ loader' = stddefs(loader, builder)
    /\ UNCHANGED <<env, last, env2, stack, program, pc, status, pre, applied,
                   executed>>

\* load_stdlib(e)
Load(e) ==
    /\ LET r == CallLoader(loader, e)
       IN  /\ env' = r.env
           /\ last' = [op |-> "load_stdlib", loader |-> loader, before |-> e,
                       ret |-> r.ret, calls |-> r.calls]
    /\ UNCHANGED <<loader, env2, stack, program, pc, status, pre, applied,
                   executed>>

NextLoader ==
    \/ \E builder \in ExtraBuilders : Stddefs(builder)
    \/ \E e \in LoadArgs \cup {env} : Load(e)

SpecLoader == InitLoader /\ [][NextLoader]_vars

\* C16: the loader made by stddefs(f1), ..., stddefs(fn) runs the first
\* loader, then f1, ..., then fn, each once; afterwards every binding the
\* environment had, every binding of the first loader and every binding of a
\* builder is present, a key bound by several of them holds the value of the
\* one registered last, and the call returns the environment it was given,
\* also when a builder returns nothing.
C16_RegistrationOrder ==
    /\ CallLoader(ScriptLoader, mk_env).env = test_env
    /\ last.op = "load_stdlib"
       => LET bs == Registered(last.loader)
              binds(i, key) == \E j \in 1..Len(bs[i].defs) : bs[i].defs[j].key = key
              bound(i, key) ==
                  bs[i].defs[CHOOSE j \in 1..Len(bs[i].defs) :
                                 bs[i].defs[j].key = key].value
              keys == {key \in DOMAIN env : \E i \in 1..Len(bs) : binds(i, key)}
          IN  /\ last.calls = <<"load_stdlib">> \o [i \in 1..Len(bs) |-> bs[i].name]
              /\ last.ret = "env"
              /\ DOMAIN env = DOMAIN last.before \cup BinaryOps
                              \cup UNION {{bs[i].defs[j].key :
                                             j \in 1..Len(bs[i].defs)} :
                                           i \in 1..Len(bs)}
              /\ \A key \in DOMAIN env :
                    IF key \in keys
                    THEN LET i == CHOOSE i \in 1..Len(bs) :
                                    /\ binds(i, key)
                                    /\ \A h \in (i + 1)..Len(bs) : ~binds(h, key)
                         IN  env[key] = bound(i, key)
                    ELSE IF key \in BinaryOps
                    THEN env[key] = prim(HostFunction(key))
                    ELSE env[key] = last.before[key]

C16_Witness ==
    /\ last.op = "load_stdlib"
    /\ last.calls = <<"load_stdlib", "dup_sqrt", "dup_one", "silent">>
    /\ last.before = mk_env
    /\ last.ret = "env"
    /\ env["dup"] = Number(1)
    /\ env["sqrt"] = Number(0)
    /\ env["+"] = prim(HostFunction("+"))

(***************************************************************************)
(* Two environments made by two calls of mk_env, and define called on one  *)
(* or the other.                                                           *)
(*   env, env2  the own properties of the two objects                      *)
(*   last       the latest call: its name, the object it acted on, the key *)
(*              and the value                                              *)
(***************************************************************************)
TwoEnvKeys == {"x", "t", "__proto__"}

TwoEnvVals == {Number(1), String("a")}

ProbeKeys == TwoEnvKeys \cup {"v", "y", "toString"}

InitTwoEnvs ==
    /\ env = mk_env
    /\ env2 = mk_env
    /\ last = NoCall
    /\ loader = ScriptLoader
    /\ stack = <<>>
    /\ program = <<>>
    /\ pc = 0
    /\ status = "done"
    /\ pre = <<>>
    /\ applied = <<>>
    /\ executed = <<>>

\* env = mk_env()
MkEnv1 ==
    /\ env' = mk_env
    /\ last' = [op |-> "mk_env", on |-> 1]
    /\ UNCHANGED <<env2, loader, stack, program, pc, status, pre, applied,
                   executed>>

\* env2 = mk_env()
MkEnv2 ==
    /\ env2' = mk_env
    /\ last' = [op |-> "mk_env", on |-> 2]
    /\ UNCHANGED <<env, loader, stack, program, pc, status, pre, applied,
                   executed>>

\* define(env, key, value)
Define1(key, value) ==
    /\ env' = define(env, key, value)
    /\ last' = [op |-> "define", on |-> 1, key |-> key, arg |-> value]
    /\ UNCHANGED <<env2, loader, stack, program, pc, status, pre, applied,
                   executed>>

\* define(env2, key, value)
Define2(key, value) ==
    /\ env2' = define(env2, key, value)
    /\ last' = [op |-> "define", on |-> 2, key |-> key, arg |-> value]
    /\ UNCHANGED <<env, loader, stack, program, pc, status, pre, applied,
                   executed>>

NextTwoEnvs ==
    \/ MkEnv1
    \/ MkEnv2
    \/ \E key \in TwoEnvKeys, value \in TwoEnvVals : Define1(key, value)
    \/ \E key \in TwoEnvKeys, value \in TwoEnvVals : Define2(key, value)

SpecTwoEnvs == InitTwoEnvs /\ [][NextTwoEnvs]_vars

\* C18: mk_env returns a mapping without bindings; a define on one of two
\* environments changes no lookup on the other; define(env, k, v) changes the
\* lookup of no key of env other than k.
C18_Independent ==
    [][/\ (last'.op = "mk_env" /\ last'.on = 1) => DOMAIN env' = {}
       /\ (last'.op = "mk_env" /\ last'.on = 2) => DOMAIN env2' = {}
       /\ (last'.op = "define" /\ last'.on = 1)
          => /\ \A k \in ProbeKeys :
                   lookup(env2', Word(k)) = lookup(env2, Word(k))
             /\ \A k \in ProbeKeys \ {last'.key} :
                   lookup(env', Word(k)) = lookup(env, Word(k))
       /\ (last'.op = "define" /\ last'.on = 2)
          => /\ \A k \in ProbeKeys :
                   lookup(env', Word(k)) = lookup(env, Word(k))
             /\ \A k \in ProbeKeys \ {last'.key} :
                   lookup(env2', Word(k)) = lookup(env2, Word(k))]_vars

====
